---- MODULE Spec2Model ----
(***************************************************************************)
(* A model of the result-materialisation layer of the ovsdb client:        *)
(* system identity resolution (getSystemID, parseSystemInfo,               *)
(* populateVersionFromAppctl), the chassis join (OvnClient.GetChassis) and *)
(* the port association (OvnClient.MapPortToChassis) of src/system.go.     *)
(*                                                                         *)
(* Go strings whose characters the code inspects are sequences of          *)
(* one-character strings (<<>> is the empty string); identifiers that the  *)
(* code only compares are TLA+ strings.                                    *)
(***************************************************************************)
EXTENDS Integers, Sequences, FiniteSets, TLC

VARIABLES
    cliSystemID,  \* cli.System.ID of the OvsClient
    sidArgs,      \* arguments and collaborator outcomes of the last getSystemID call
    sidRet,       \* (systemID, err) returned by the last getSystemID call
    psiArgs,      \* arguments of the last parseSystemInfo call
    psiRet,       \* (systemInfo, err) returned by the last parseSystemInfo call
    popArgs,      \* arguments and collaborator outcomes of the last populateVersionFromAppctl call
    popRet,       \* the systemInfo map after populateVersionFromAppctl
    pc,           \* position of GetChassis: "start", "chassis", "encap", "done"
    result,       \* GetChassis: the local `result`, `err` of the last Transact
    chassis,      \* GetChassis: the local slice `chassis`
    ret,          \* GetChassis: the returned (list, err)
    mpc,          \* position of MapPortToChassis: "idle", "loop", "done"
    vteps,        \* MapPortToChassis: the chassis objects passed in
    lsps,         \* MapPortToChassis: the logical switch port objects passed in
    switchMap,    \* MapPortToChassis: the local switchMap (its key set)
    idx,          \* MapPortToChassis: index of the next port of the range loop
    verArgs,      \* argument of the last parseOvsVersion call
    verRet,       \* string returned by the last parseOvsVersion call
    numArgs,      \* the Chassis_Private row whose numeric columns were decoded last
    numRet        \* chassisNbCfgMap and chassisTimestampMap after that row

vars == <<cliSystemID, sidArgs, sidRet, psiArgs, psiRet, popArgs, popRet,
          pc, result, chassis, ret, mpc, vteps, lsps, switchMap, idx,
          verArgs, verRet, numArgs, numRet>>

idVars == <<cliSystemID, sidArgs, sidRet>>
infoVars == <<psiArgs, psiRet, popArgs, popRet>>
chassisVars == <<pc, result, chassis, ret>>
mapVars == <<mpc, vteps, lsps, switchMap, idx>>
versionVars == <<verArgs, verRet>>
numVars == <<numArgs, numRet>>

(***************************************************************************)
(* Strings and errors                                                      *)
(***************************************************************************)
Rep(n, c) == [i \in 1..n |-> c]

EmptyMap == [k \in {} |-> <<>>]

\* A Go error: what kind it is and which underlying causes its message holds.
NoErr == [kind |-> "nil", causes |-> {}]

MkErr(kind, causes) == [kind |-> kind, causes |-> causes]

\* fmt.Errorf("... database (%s) and file (%s)", dbErr, err)
BothErr(dbErr, fileErr) == MkErr("database and file", dbErr.causes \cup fileErr.causes)

\* bufio.ScanLines: strip one trailing carriage return from a line
dropCR(s) == IF Len(s) > 0 /\ s[Len(s)] = "\r" THEN SubSeq(s, 1, Len(s) - 1) ELSE s

\* index of the first "\n" of s, 0 when there is none
firstNewline(s) ==
    IF \E i \in 1..Len(s) : s[i] = "\n"
    THEN CHOOSE i \in 1..Len(s) : s[i] = "\n" /\ \A j \in 1..(i - 1) : s[j] # "\n"
    ELSE 0

\* The lines bufio.Scanner yields for a file content (ScanLines).
RECURSIVE scanLines(_)
scanLines(s) ==
    IF Len(s) = 0 THEN <<>>
    ELSE LET nl == firstNewline(s) IN
         IF nl = 0 THEN <<dropCR(s)>>
         ELSE <<dropCR(SubSeq(s, 1, nl - 1))>> \o scanLines(SubSeq(s, nl + 1, Len(s)))

(***************************************************************************)
(* getSystemID                                                             *)
(***************************************************************************)
MaxIDLen == 253

IDSHORT == <<"i", "d">>
IDOTHER == <<"x">>
IDMAX == Rep(MaxIDLen, "a")
IDLONG == Rep(MaxIDLen + 1, "a")

\* values of external_ids["system-id"] in the database
DbIDs == {<<>>, IDSHORT, IDMAX, IDLONG}

\* external_ids maps: system-id absent or one of DbIDs, hostname absent or set
ExtIDMaps ==
    {EmptyMap, [k \in {"hostname"} |-> <<"h">>]}
    \cup {[k \in {"system-id"} |-> i] : i \in DbIDs}
    \cup {[k \in {"system-id", "hostname"} |-> IF k = "hostname" THEN <<"h">> ELSE i] : i \in DbIDs}

\* outcome of Row.GetColumnValue("external_ids"): an error, another type, or the map
ExtIDCells ==
    {[dt |-> "err", m |-> EmptyMap], [dt |-> "string", m |-> EmptyMap]}
    \cup {[dt |-> "map[string]string", m |-> m] : m \in ExtIDMaps}

\* outcome of client.Transact: a transport error, or a result of zero, one or two rows
IDQueryOutcomes ==
    {[err |-> TRUE, rows |-> <<>>], [err |-> FALSE, rows |-> <<>>]}
    \cup {[err |-> FALSE, rows |-> <<c>>] : c \in ExtIDCells}
    \cup {[err |-> FALSE, rows |-> <<c, [dt |-> "map[string]string", m |-> [k \in {"system-id"} |-> IDOTHER]]>>] :
            c \in {[dt |-> "err", m |-> EmptyMap], [dt |-> "map[string]string", m |-> EmptyMap]}}

IDFileTails == {<<>>, <<"\n">>, <<"\r", "\n">>, <<"\n", "z">>}

\* outcome of the identity file: open fails, a read fails, or the content is read
IDFileOutcomes ==
    {[st |-> "open", content |-> <<>>], [st |-> "read", content |-> <<>>],
     [st |-> "read", content |-> IDSHORT]}
    \cup {[st |-> "ok", content |-> h \o t] : h \in DbIDs, t \in IDFileTails}

\* len(systemID) > 253
TooLong_OffByOne(systemID) == Len(systemID) > MaxIDLen + 1

TooLong(systemID) == Len(systemID) > MaxIDLen

TooLongErr == MkErr("system-id too long", {})

\* the database attempt: the identity it found (if any) and dbErr
dbAttempt(client, dbName, db) ==
    IF client /\ dbName # ""
    THEN IF ~db.err /\ Len(db.rows) > 0
         THEN LET cell == db.rows[1] IN
              IF cell.dt = "map[string]string"
                 /\ "system-id" \in DOMAIN cell.m /\ cell.m["system-id"] # <<>>
              THEN [found |-> TRUE, id |-> cell.m["system-id"], dbErr |-> NoErr]
              ELSE [found |-> FALSE, id |-> <<>>, dbErr |-> NoErr]
         ELSE IF db.err
              THEN [found |-> FALSE, id |-> <<>>, dbErr |-> MkErr("transport", {"database"})]
              ELSE [found |-> FALSE, id |-> <<>>, dbErr |-> NoErr]
    ELSE [found |-> FALSE, id |-> <<>>, dbErr |-> NoErr]

\* the file fallback, given dbErr of the database attempt
fileAttempt(dbErr, file) ==
    IF file.st = "open"
    THEN IF dbErr # NoErr
         THEN [id |-> <<>>, err |-> BothErr(dbErr, MkErr("open", {"file"}))]
         ELSE [id |-> <<>>, err |-> MkErr("open", {"file"})]
    ELSE IF file.st = "read"
    THEN IF dbErr # NoErr
         THEN [id |-> <<>>, err |-> BothErr(dbErr, MkErr("read", {"file"}))]
         ELSE [id |-> <<>>, err |-> MkErr("read", {"file"})]
    ELSE LET lines == scanLines(file.content)
             systemID == IF Len(lines) > 0 THEN lines[1] ELSE <<>>
         IN  IF TooLong(systemID)
             THEN [id |-> systemID, err |-> TooLongErr]
             ELSE [id |-> systemID, err |-> NoErr]

getSystemID(client, dbName, db, file) ==
    LET d == dbAttempt(client, dbName, db) IN
    IF d.found
    THEN IF TooLong(d.id)
         THEN [id |-> d.id, err |-> TooLongErr]
         ELSE [id |-> d.id, err |-> NoErr]
    ELSE fileAttempt(d.dbErr, file)

NoCall == [called |-> FALSE]

\* OvsClient.GetSystemID
GetSystemID ==
    /\ ~sidArgs.called
    /\ \E client \in BOOLEAN, dbName \in {"", "Open_vSwitch"},
       db \in IDQueryOutcomes, file \in IDFileOutcomes :
        LET r == getSystemID(client, dbName, db, file) IN
        /\ sidArgs' = [called |-> TRUE, client |-> client, dbName |-> dbName,
                       db |-> db, file |-> file]
        /\ sidRet' = r
        /\ cliSystemID' = IF r.err = NoErr THEN r.id ELSE cliSystemID
        /\ UNCHANGED <<infoVars, chassisVars, mapVars, versionVars, numVars>>

Init ==
    /\ cliSystemID = <<>>
    /\ sidArgs = NoCall
    /\ sidRet = [id |-> <<>>, err |-> NoErr]
    /\ psiArgs = NoCall
    /\ psiRet = [info |-> EmptyMap, err |-> NoErr]
    /\ popArgs = NoCall
    /\ popRet = EmptyMap
    /\ pc = "start"
    /\ result = [table |-> "", err |-> FALSE, rows |-> <<>>]
    /\ chassis = <<>>
    /\ ret = [list |-> <<>>, isNil |-> TRUE, err |-> NoErr]
    /\ mpc = "idle"
    /\ vteps = <<>>
    /\ lsps = <<>>
    /\ switchMap = {}
    /\ idx = 1
    /\ verArgs = [called |-> FALSE, versionStr |-> <<>>]
    /\ verRet = <<>>
    /\ numArgs = [called |-> FALSE]
    /\ numRet = [nb |-> EmptyMap, ts |-> EmptyMap]

(***************************************************************************)
(* parseSystemInfo                                                         *)
(***************************************************************************)
Put(m, k, v) == [x \in DOMAIN m \cup {k} |-> IF x = k THEN v ELSE m[x]]

InfoColumns == <<"ovs_version", "db_version", "system_type", "system_version">>

\* dbSystemID != systemID
idMismatch_Never(dbSystemID, systemID) == FALSE

idMismatch(dbSystemID, systemID) == dbSystemID # systemID

\* the loop over the four version columns of the first row
RECURSIVE fillColumns(_, _, _)
fillColumns(info, row, i) ==
    IF i > Len(InfoColumns) THEN [info |-> info, err |-> NoErr]
    ELSE LET col == InfoColumns[i]
             cell == row.cols[col]
         IN  IF cell.dt = "err"
             THEN [info |-> info, err |-> MkErr("parsing failed", {col})]
             ELSE IF cell.dt = "string"
             THEN fillColumns(Put(info, col, cell.v[1]), row, i + 1)
             ELSE IF cell.dt = "[]string"
             THEN fillColumns(Put(info, col, IF Len(cell.v) > 0 THEN cell.v[1] ELSE <<>>), row, i + 1)
             ELSE [info |-> info, err |-> MkErr("unexpected type", {col})]

\* the range loop over result.Rows, left after the first row
decodeFirstRow(res) ==
    IF Len(res.rows) = 0 THEN [info |-> EmptyMap, err |-> NoErr]
    ELSE LET row == res.rows[1] IN
         IF row.ext.dt = "err"
         THEN [info |-> EmptyMap, err |-> MkErr("parsing failed", {"external_ids"})]
         ELSE IF row.ext.dt # "map[string]string"
         THEN [info |-> EmptyMap, err |-> MkErr("unexpected type", {"external_ids"})]
         ELSE fillColumns(row.ext.m, row, 1)

parseSystemInfo(systemID, res) ==
    LET d == decodeFirstRow(res) IN
    IF d.err # NoErr THEN d
    ELSE IF "system-id" \in DOMAIN d.info
    THEN IF idMismatch(d.info["system-id"], systemID)
         THEN [info |-> d.info, err |-> MkErr("system-id mismatch", {})]
         ELSE LET withDefaults == IF "rundir" \in DOMAIN d.info THEN d.info
                                  ELSE Put(d.info, "rundir", <<"/", "v", "a", "r">>)
              IN  IF "hostname" \notin DOMAIN withDefaults
                  THEN [info |-> withDefaults, err |-> MkErr("no mandatory key", {"hostname"})]
                  ELSE [info |-> withDefaults, err |-> NoErr]
    ELSE [info |-> d.info, err |-> MkErr("no system-id", {})]

\* the identities a caller expects, and external_ids maps of the Open_vSwitch row
ExpectedIDs == {<<>>, IDSHORT, IDOTHER}

InfoExtMaps ==
    {[k \in ks |-> IF k = "system-id" THEN i ELSE <<"v">>] :
        ks \in SUBSET {"system-id", "hostname", "rundir"}, i \in ExpectedIDs}

InfoExtCells ==
    {[dt |-> "err", m |-> EmptyMap], [dt |-> "string", m |-> EmptyMap]}
    \cup {[dt |-> "map[string]string", m |-> m] : m \in InfoExtMaps}

\* outcomes of GetColumnValue for a version column
InfoColCells ==
    {[dt |-> "err", v |-> <<>>], [dt |-> "integer", v |-> <<>>],
     [dt |-> "string", v |-> <<<<"1">>>>], [dt |-> "[]string", v |-> <<>>],
     [dt |-> "[]string", v |-> <<<<"2">>, <<"3">>>>]}

InfoRows ==
    {[ext |-> e, cols |-> c] :
        e \in InfoExtCells,
        c \in [{"ovs_version", "db_version", "system_type", "system_version"} -> InfoColCells]}

GoodInfoRow ==
    [ext |-> [dt |-> "map[string]string",
              m |-> [k \in {"system-id", "hostname"} |-> IDOTHER]],
     cols |-> [c \in {"ovs_version", "db_version", "system_type", "system_version"} |->
                 [dt |-> "string", v |-> <<<<"9">>>>]]]

\* results of zero rows, of one row, and of two rows
InfoResults ==
    {[rows |-> <<>>]}
    \cup {[rows |-> <<r>>] : r \in InfoRows}
    \cup {[rows |-> <<r, GoodInfoRow>>] :
            r \in {x \in InfoRows : \A c \in DOMAIN x.cols : x.cols[c].dt = "err"}}

ParseSystemInfo ==
    /\ ~psiArgs.called
    /\ \E systemID \in ExpectedIDs, res \in InfoResults :
        /\ psiArgs' = [called |-> TRUE, systemID |-> systemID, res |-> res]
        /\ psiRet' = parseSystemInfo(systemID, res)
    /\ UNCHANGED <<idVars, popArgs, popRet, chassisVars, mapVars, versionVars, numVars>>

(***************************************************************************)
(* parseOvsVersion, getVersionViaAppctl, getSystemInfoFromOS,              *)
(* populateVersionFromAppctl                                               *)
(***************************************************************************)
\* the literal "(Open vSwitch)" of the pattern
ProductTag == <<"(", "O", "p", "e", "n", " ", "v", "S", "w", "i", "t", "c", "h", ")">>

\* \s of the regexp package; "VT" stands for the vertical tab, which \s leaves
\* out and strings.TrimSpace strips
ReSpace == {" ", "\t", "\n", "\f", "\r"}

UnicodeSpace == ReSpace \cup {"VT"}

\* [\d.]
VersionChar == {"0", "1", "2", "3", "4", "5", "6", "7", "8", "9", "."}

\* length of the longest run of characters of class cls in s from position i
RECURSIVE runLen(_, _, _)
runLen(s, i, cls) ==
    IF i <= Len(s) /\ s[i] \in cls THEN 1 + runLen(s, i + 1, cls) ELSE 0

\* \(Open vSwitch\)\s([\d.]+): a pattern that takes one white space only
matchesAt_OneSpace(s, i) ==
    /\ i + Len(ProductTag) - 1 <= Len(s)
    /\ SubSeq(s, i, i + Len(ProductTag) - 1) = ProductTag
    /\ runLen(s, i + Len(ProductTag), ReSpace) >= 1
    /\ runLen(s, i + Len(ProductTag) + 1, VersionChar) >= 1

\* \(Open vSwitch\)\s+([\d.]+) matches s at position i
matchesAt(s, i) ==
    /\ i + Len(ProductTag) - 1 <= Len(s)
    /\ SubSeq(s, i, i + Len(ProductTag) - 1) = ProductTag
    /\ LET w == runLen(s, i + Len(ProductTag), ReSpace) IN
       /\ w >= 1
       /\ runLen(s, i + Len(ProductTag) + w, VersionChar) >= 1

\* the submatch of the leftmost match at position i
captureAt(s, i) ==
    LET w == runLen(s, i + Len(ProductTag), ReSpace)
        from == i + Len(ProductTag) + w
    IN  SubSeq(s, from, from + runLen(s, from, VersionChar) - 1)

\* strings.TrimSpace
TrimSpace(s) ==
    LET lead == runLen(s, 1, UnicodeSpace) IN
    IF lead = Len(s) THEN <<>>
    ELSE LET last == CHOOSE j \in 1..Len(s) :
                        s[j] \notin UnicodeSpace /\ \A k \in (j + 1)..Len(s) : s[k] \in UnicodeSpace
         IN  SubSeq(s, lead + 1, last)

parseOvsVersion(versionStr) ==
    IF \E i \in 1..Len(versionStr) : matchesAt(versionStr, i)
    THEN captureAt(versionStr,
                   CHOOSE i \in 1..Len(versionStr) :
                       matchesAt(versionStr, i) /\ \A j \in 1..(i - 1) : ~matchesAt(versionStr, j))
    ELSE TrimSpace(versionStr)

\* getVersionViaAppctl: the outcome of the control socket is a failed connect,
\* a failed query, or a response text
getVersionViaAppctl(appctl) ==
    IF appctl.st = "connect" THEN [response |-> <<>>, err |-> MkErr("connect failed", {"socket"})]
    ELSE IF appctl.st = "query" THEN [response |-> <<>>, err |-> MkErr("command failed", {"socket"})]
    ELSE IF appctl.response = <<>> THEN [response |-> <<>>, err |-> MkErr("no data", {})]
    ELSE [response |-> appctl.response, err |-> NoErr]

hasPrefix(s, p) == Len(s) >= Len(p) /\ SubSeq(s, 1, Len(p)) = p

trimPrefix(s, p) == IF hasPrefix(s, p) THEN SubSeq(s, Len(p) + 1, Len(s)) ELSE s

\* strings.Trim(s, "\"")
trimQuotes(s) ==
    LET lead == runLen(s, 1, {"\""}) IN
    IF lead = Len(s) THEN <<>>
    ELSE LET last == CHOOSE j \in 1..Len(s) :
                        s[j] # "\"" /\ \A k \in (j + 1)..Len(s) : s[k] = "\""
         IN  SubSeq(s, lead + 1, last)

KeyID == <<"I", "D", "=">>
KeyVersionID == <<"V", "E", "R", "S", "I", "O", "N", "_", "I", "D", "=">>

\* the scan loop of getSystemInfoFromOS over the lines from line i on
RECURSIVE scanOSRelease(_, _, _)
scanOSRelease(lines, i, acc) ==
    IF i > Len(lines) THEN acc
    ELSE LET line == lines[i] IN
         IF hasPrefix(line, KeyID)
         THEN scanOSRelease(lines, i + 1, [acc EXCEPT !.type = trimQuotes(trimPrefix(line, KeyID))])
         ELSE IF hasPrefix(line, KeyVersionID)
         THEN scanOSRelease(lines, i + 1,
                            [acc EXCEPT !.version = trimQuotes(trimPrefix(line, KeyVersionID))])
         ELSE scanOSRelease(lines, i + 1, acc)

getSystemInfoFromOS(os) ==
    IF os.st = "open" THEN [type |-> <<>>, version |-> <<>>]
    ELSE scanOSRelease(scanLines(os.content), 1, [type |-> <<>>, version |-> <<>>])

UNKNOWN == <<"u", "n", "k", "n", "o", "w", "n">>

\* !exists || val == ""
missingOrEmpty(systemInfo, key) == key \notin DOMAIN systemInfo \/ systemInfo[key] = <<>>

orUnknown(v) == IF v # <<>> THEN v ELSE UNKNOWN

popOvsVersion(systemInfo, appctl) ==
    IF missingOrEmpty(systemInfo, "ovs_version")
    THEN LET r == getVersionViaAppctl(appctl) IN
         IF r.err = NoErr THEN Put(systemInfo, "ovs_version", parseOvsVersion(r.response))
         ELSE Put(systemInfo, "ovs_version", UNKNOWN)
    ELSE systemInfo

popDbVersion(systemInfo, schema) ==
    IF missingOrEmpty(systemInfo, "db_version")
    THEN IF ~schema.isNil /\ schema.version # <<>>
         THEN Put(systemInfo, "db_version", schema.version)
         ELSE Put(systemInfo, "db_version", UNKNOWN)
    ELSE systemInfo

popSystem(systemInfo, os) ==
    IF missingOrEmpty(systemInfo, "system_type")
    THEN LET o == getSystemInfoFromOS(os) IN
         Put(Put(systemInfo, "system_type", orUnknown(o.type)),
             "system_version", orUnknown(o.version))
    ELSE IF missingOrEmpty(systemInfo, "system_version")
    THEN Put(systemInfo, "system_version", orUnknown(getSystemInfoFromOS(os).version))
    ELSE systemInfo

populateVersionFromAppctl(systemInfo, appctl, schema, os) ==
    popSystem(popDbVersion(popOvsVersion(systemInfo, appctl), schema), os)

\* inputs: metadata maps with each key absent, empty or set
PopInfos ==
    {[k \in ks |-> IF k \in es THEN <<>> ELSE <<"7">>] :
        ks \in SUBSET {"ovs_version", "db_version", "system_type", "system_version"},
        es \in SUBSET {"ovs_version", "db_version", "system_type", "system_version"}}

Schemas == {[isNil |-> TRUE, version |-> <<>>], [isNil |-> FALSE, version |-> <<>>],
            [isNil |-> FALSE, version |-> <<"7", ".", "1">>]}

Daemon == <<"o", "v", "s">>

AppctlResponses ==
    {<<>>, <<" ">>, <<"\n">>, <<"x", " ">>, ProductTag,
     Daemon \o <<" ">> \o ProductTag \o <<" ", "3", ".", "5">>,
     Daemon \o <<" ">> \o ProductTag \o <<" ", " ", "3", ".", "5", " ", "\n">>,
     ProductTag \o <<" ", "x">>}

AppctlOutcomes ==
    {[st |-> "connect", response |-> <<>>], [st |-> "query", response |-> <<>>]}
    \cup {[st |-> "ok", response |-> r] : r \in AppctlResponses}

OSLineID == KeyID \o <<"u">>
OSLineIDQuoted == KeyID \o <<"\"", "u", "\"">>
OSLineIDEmpty == KeyID \o <<"\"", "\"">>
OSLineVersion == KeyVersionID \o <<"\"", "2", "2", "\"">>
OSLineOther == <<"I", "D", "_", "L", "I", "K", "E", "=", "d">>

OSReleaseOutcomes ==
    {[st |-> "open", content |-> <<>>], [st |-> "ok", content |-> <<>>],
     [st |-> "ok", content |-> OSLineID \o <<"\n">> \o OSLineVersion \o <<"\n">>],
     [st |-> "ok", content |-> OSLineOther \o <<"\n">> \o OSLineIDQuoted],
     [st |-> "ok", content |-> OSLineVersion \o <<"\n">> \o OSLineOther \o <<"\n">>],
     [st |-> "ok", content |-> OSLineIDEmpty \o <<"\n">> \o OSLineVersion]}

PopulateVersionFromAppctl ==
    /\ ~popArgs.called
    /\ \E systemInfo \in PopInfos, appctl \in AppctlOutcomes,
          schema \in Schemas, os \in OSReleaseOutcomes :
        /\ popArgs' = [called |-> TRUE, systemInfo |-> systemInfo, appctl |-> appctl,
                       schema |-> schema, os |-> os]
        /\ popRet' = populateVersionFromAppctl(systemInfo, appctl, schema, os)
    /\ UNCHANGED <<idVars, psiArgs, psiRet, chassisVars, mapVars, versionVars, numVars>>

(***************************************************************************)
(* OvnClient.GetChassis                                                    *)
(***************************************************************************)
MaxChassisRows == 2
MaxEncapRows == 1
MaxPrivateRows == 2

\* sequences over S of length at most n
RECURSIVE SeqsUpTo(_, _)
SeqsUpTo(S, n) ==
    IF n = 0 THEN {<<>>}
    ELSE LET shorter == SeqsUpTo(S, n - 1) IN
         shorter \cup {Append(q, x) : q \in {y \in shorter : Len(y) = n - 1}, x \in S}

\* a cell as Row.GetColumnValue reports it: dt = "err" when it returns an error
StrCell(s) == [dt |-> "string", s |-> s]
NumCell(dt, n) == [dt |-> dt, n |-> n]

NilIP == "<nil>"
ValidIPs == {"10.0.0.1"}

\* net.ParseIP
parseIP(text) == IF text \in ValidIPs THEN text ELSE NilIP

isString(cell) == cell.dt = "string"

\* &OvnChassis{} with the three columns of a Chassis row
newChassis(uuid, name, encaps) ==
    [UUID |-> uuid, Name |-> name, IPAddress |-> NilIP,
     EncapsUUID |-> encaps, EncapsProto |-> "",
     NbCfg |-> 0, NbCfgTimestamp |-> 0, Ports |-> <<>>, Switches |-> <<>>]

\* phase 1: the loop over the Chassis rows
RECURSIVE buildChassis(_, _, _)
buildChassis(rows, i, acc) ==
    IF i > Len(rows) THEN acc
    ELSE LET row == rows[i] IN
         IF isString(row.uuid) /\ isString(row.name) /\ isString(row.encaps)
         THEN buildChassis(rows, i + 1, Append(acc, newChassis(row.uuid.s, row.name.s, row.encaps.s)))
         ELSE buildChassis(rows, i + 1, acc)

\* c.Encaps.UUID == encapUUID && c.Name == chassisName
encapMatches(c, encapUUID, chassisName) == c.EncapsUUID = encapUUID /\ c.Name = chassisName

\* the inner loop over chassis for one decoded Encap row: the first match is set
setEncap(list, encapUUID, encapProto, chassisName, ip) ==
    IF \E k \in 1..Len(list) : encapMatches(list[k], encapUUID, chassisName)
    THEN LET k == CHOOSE k \in 1..Len(list) :
                     /\ encapMatches(list[k], encapUUID, chassisName)
                     /\ \A j \in 1..(k - 1) : ~encapMatches(list[j], encapUUID, chassisName)
         IN  [list EXCEPT ![k].IPAddress = parseIP(ip), ![k].EncapsProto = encapProto]
    ELSE list

\* phase 2: the loop over the Encap rows
RECURSIVE joinEncap(_, _, _)
joinEncap(rows, i, list) ==
    IF i > Len(rows) THEN list
    ELSE LET row == rows[i] IN
         IF isString(row.uuid) /\ isString(row.type) /\ isString(row.chassis_name) /\ isString(row.ip)
         THEN joinEncap(rows, i + 1, setEncap(list, row.uuid.s, row.type.s, row.chassis_name.s, row.ip.s))
         ELSE joinEncap(rows, i + 1, list)

\* int64(r.(float64)); a float64 cell holds its value in halves
truncHalves(n) == IF n >= 0 THEN n \div 2 ELSE -((-n) \div 2)

\* the switch without its case "int"
decodeNum_NoInt(cell) ==
    IF cell.dt \in {"int64", "integer"} THEN cell.n
    ELSE IF cell.dt = "float64" THEN truncHalves(cell.n)
    ELSE 0

\* the switch over the type tag of nb_cfg and nb_cfg_timestamp
decodeNum(cell) ==
    IF cell.dt \in {"int64", "integer", "int"} THEN cell.n
    ELSE IF cell.dt = "float64" THEN truncHalves(cell.n)
    ELSE 0

strOrEmpty(cell) == IF isString(cell) THEN cell.s ELSE ""

\* phase 3: chassisNbCfgMap and chassisTimestampMap after the rows from i on
RECURSIVE indexPrivate(_, _, _)
indexPrivate(rows, i, maps) ==
    IF i > Len(rows) THEN maps
    ELSE LET row == rows[i]
             chassisUUID == strOrEmpty(row.chassis)
             chassisName == strOrEmpty(row.name)
             nbCfg == decodeNum(row.nb_cfg)
             nbCfgTimestamp == decodeNum(row.nb_cfg_timestamp)
             byUUID == IF chassisUUID # ""
                       THEN [nb |-> Put(maps.nb, chassisUUID, nbCfg),
                             ts |-> Put(maps.ts, chassisUUID, nbCfgTimestamp)]
                       ELSE maps
             byName == IF chassisName # ""
                       THEN [nb |-> Put(byUUID.nb, chassisName, nbCfg),
                             ts |-> Put(byUUID.ts, chassisName, nbCfgTimestamp)]
                       ELSE byUUID
         IN  indexPrivate(rows, i + 1, byName)

\* the value a chassis takes from one of the two maps: by UUID, else by name, else as it is
lookupPrivate_UUIDOnly(m, c, old) == IF c.UUID \in DOMAIN m THEN m[c.UUID] ELSE old

lookupPrivate(m, c, old) ==
    IF c.UUID \in DOMAIN m THEN m[c.UUID]
    ELSE IF c.Name \in DOMAIN m THEN m[c.Name]
    ELSE old

\* phase 3: the loop that sets NbCfg and NbCfgTimestamp of every chassis
applyPrivate(list, maps) ==
    [k \in 1..Len(list) |->
        [list[k] EXCEPT !.NbCfg = lookupPrivate(maps.nb, list[k], list[k].NbCfg),
                        !.NbCfgTimestamp = lookupPrivate(maps.ts, list[k], list[k].NbCfgTimestamp)]]

Failed(kind, table) == [list |-> <<>>, isNil |-> TRUE, err |-> MkErr(kind, {table})]

Returned(list) == [list |-> list, isNil |-> FALSE, err |-> NoErr]

\* if err != nil { return chassis, nil } after the Chassis_Private query
onPrivateError_Hard(list) == Failed("table error", "Chassis_Private")

onPrivateError(list) == Returned(list)

ChassisRows ==
    {[uuid |-> StrCell("u1"), name |-> StrCell("n1"), encaps |-> StrCell("e1")],
     [uuid |-> StrCell("u2"), name |-> StrCell("n1"), encaps |-> StrCell("e1")],
     [uuid |-> StrCell("u2"), name |-> StrCell("n2"), encaps |-> StrCell("e2")],
     [uuid |-> [dt |-> "err", s |-> ""], name |-> StrCell("n1"), encaps |-> StrCell("e1")],
     [uuid |-> StrCell("u1"), name |-> StrCell("n1"), encaps |-> [dt |-> "[]string", s |-> ""]]}

EncapRows ==
    {[uuid |-> StrCell("e1"), type |-> StrCell("geneve"), chassis_name |-> StrCell("n1"), ip |-> StrCell("10.0.0.1")],
     [uuid |-> StrCell("e2"), type |-> StrCell("geneve"), chassis_name |-> StrCell("n2"), ip |-> StrCell("10.0.0.1")],
     [uuid |-> StrCell("e1"), type |-> StrCell("vxlan"), chassis_name |-> StrCell("n2"), ip |-> StrCell("10.0.0.1")],
     [uuid |-> StrCell("e2"), type |-> StrCell("vxlan"), chassis_name |-> StrCell("n1"), ip |-> StrCell("no-ip")],
     [uuid |-> StrCell("e1"), type |-> [dt |-> "err", s |-> ""], chassis_name |-> StrCell("n1"), ip |-> StrCell("10.0.0.1")]}

PrivateValues ==
    {[nb_cfg |-> NumCell("int64", 5), nb_cfg_timestamp |-> NumCell("integer", 50)],
     [nb_cfg |-> NumCell("float64", 7), nb_cfg_timestamp |-> NumCell("int", 30)]}

\* the chassis and name columns of a Chassis_Private row: either may be
\* unreadable or empty, and a name may equal the UUID of a chassis
PrivateKeys ==
    {[chassis |-> StrCell("u1"), name |-> [dt |-> "err", s |-> ""]],
     [chassis |-> [dt |-> "[]string", s |-> ""], name |-> StrCell("n1")],
     [chassis |-> StrCell("u2"), name |-> StrCell("n1")],
     [chassis |-> StrCell(""), name |-> StrCell("u1")]}

PrivateRows ==
    {[chassis |-> k.chassis, name |-> k.name,
      nb_cfg |-> v.nb_cfg, nb_cfg_timestamp |-> v.nb_cfg_timestamp] :
        k \in PrivateKeys, v \in PrivateValues}

\* what Transact answers for a table: a transport error, or rows
QueryOutcomes(table, rowSet, maxRows) ==
    {[table |-> table, err |-> TRUE, rows |-> <<>>]}
    \cup {[table |-> table, err |-> FALSE, rows |-> r] : r \in SeqsUpTo(rowSet, maxRows)}

\* "SELECT _uuid, name, encaps FROM Chassis" and the loop over its rows
QueryChassis ==
    /\ pc = "start"
    /\ \E res \in QueryOutcomes("Chassis", ChassisRows, MaxChassisRows) :
        /\ result' = res
        /\ IF res.err
           THEN pc' = "done" /\ ret' = Failed("table error", "Chassis") /\ UNCHANGED chassis
           ELSE IF Len(res.rows) = 0
           THEN pc' = "done" /\ ret' = Failed("no chassis found", "Chassis") /\ UNCHANGED chassis
           ELSE pc' = "chassis" /\ chassis' = buildChassis(res.rows, 1, <<>>) /\ UNCHANGED ret
    /\ UNCHANGED <<idVars, infoVars, mapVars, versionVars, numVars>>

\* "SELECT _uuid, chassis_name, ip, type FROM Encap" and the loop over its rows
QueryEncap ==
    /\ pc = "chassis"
    /\ \E res \in QueryOutcomes("Encap", EncapRows, MaxEncapRows) :
        /\ result' = res
        /\ IF res.err
           THEN pc' = "done" /\ ret' = Failed("table error", "Encap") /\ UNCHANGED chassis
           ELSE IF Len(res.rows) = 0
           THEN pc' = "done" /\ ret' = Failed("no chassis found", "Encap") /\ UNCHANGED chassis
           ELSE pc' = "encap" /\ chassis' = joinEncap(res.rows, 1, chassis) /\ UNCHANGED ret
    /\ UNCHANGED <<idVars, infoVars, mapVars, versionVars, numVars>>

\* "SELECT chassis, name, nb_cfg, nb_cfg_timestamp FROM Chassis_Private", the
\* two maps, the loop over chassis and the return
QueryChassisPrivate ==
    /\ pc = "encap"
    /\ \E res \in QueryOutcomes("Chassis_Private", PrivateRows, MaxPrivateRows) :
        /\ result' = res
        /\ pc' = "done"
        /\ IF res.err
           THEN ret' = onPrivateError(chassis) /\ UNCHANGED chassis
           ELSE /\ chassis' = applyPrivate(chassis, indexPrivate(res.rows, 1, [nb |-> EmptyMap, ts |-> EmptyMap]))
                /\ ret' = Returned(chassis')
    /\ UNCHANGED <<idVars, infoVars, mapVars, versionVars, numVars>>

(***************************************************************************)
(* OvnClient.MapPortToChassis                                              *)
(***************************************************************************)
MaxVteps == 2
MaxPorts == 3

\* what a port holds in Encapsulation and ChassisIPAddress before the call
OrigEncap == "stt"
OrigIP == "192.0.2.9"

PortUUID(i) == <<"p1", "p2", "p3", "p4", "p5", "p6">>[i]

\* portMap[uuid]: the index in vteps of the chassis the map holds for uuid
\* (the last one stored under it), 0 when the key does not exist
portMapIndex_Default(list, uuid) ==
    IF \E k \in 1..Len(list) : list[k].UUID = uuid
    THEN CHOOSE k \in 1..Len(list) :
             list[k].UUID = uuid /\ \A j \in (k + 1)..Len(list) : list[j].UUID # uuid
    ELSE IF Len(list) > 0 THEN 1 ELSE 0

portMapIndex(list, uuid) ==
    IF \E k \in 1..Len(list) : list[k].UUID = uuid
    THEN CHOOSE k \in 1..Len(list) :
             list[k].UUID = uuid /\ \A j \in (k + 1)..Len(list) : list[j].UUID # uuid
    ELSE 0

\* _, exists := switchMap[logicalSwitchPort.LogicalSwitchUUID]
switchSeen_Never(seen, switchUUID) == FALSE

switchSeen(seen, switchUUID) == switchUUID \in seen

VtepObjects ==
    {[newChassis("u1", "n1", "e1") EXCEPT !.IPAddress = "10.0.0.1", !.EncapsProto = "geneve"],
     [newChassis("u2", "n2", "e2") EXCEPT !.EncapsProto = "vxlan"]}

PortRefs == {[ChassisUUID |-> c, LogicalSwitchUUID |-> w] : c \in {"u1", "u2", "u9"}, w \in {"sw-1", "sw-2"}}

newPort(i, ref) ==
    [UUID |-> PortUUID(i), ChassisUUID |-> ref.ChassisUUID,
     LogicalSwitchUUID |-> ref.LogicalSwitchUUID,
     Encapsulation |-> OrigEncap, ChassisIPAddress |-> OrigIP]

\* the call: portMap and switchMap are made, portMap is filled from vteps
MapPortToChassis ==
    /\ mpc = "idle"
    /\ \E vs \in SeqsUpTo(VtepObjects, MaxVteps), refs \in SeqsUpTo(PortRefs, MaxPorts) :
        /\ vteps' = vs
        /\ lsps' = [i \in 1..Len(refs) |-> newPort(i, refs[i])]
    /\ switchMap' = {}
    /\ idx' = 1
    /\ mpc' = "loop"
    /\ UNCHANGED <<idVars, infoVars, chassisVars, versionVars, numVars>>

\* one iteration of the loop over logicalSwitchPorts
MapPort ==
    /\ mpc = "loop" /\ idx <= Len(lsps)
    /\ LET port == lsps[idx]
           k == portMapIndex(vteps, port.ChassisUUID)
       IN  IF k = 0
           THEN UNCHANGED <<vteps, lsps, switchMap>>
           ELSE /\ lsps' = [lsps EXCEPT ![idx].Encapsulation = vteps[k].EncapsProto,
                                        ![idx].ChassisIPAddress = vteps[k].IPAddress]
                /\ IF switchSeen(switchMap, port.LogicalSwitchUUID)
                   THEN /\ vteps' = [vteps EXCEPT ![k].Ports = Append(@, port.UUID)]
                        /\ UNCHANGED switchMap
                   ELSE /\ vteps' = [vteps EXCEPT ![k].Ports = Append(@, port.UUID),
                                                  ![k].Switches = Append(@, port.LogicalSwitchUUID)]
                        /\ switchMap' = switchMap \cup {port.LogicalSwitchUUID}
    /\ idx' = idx + 1
    /\ UNCHANGED <<mpc, idVars, infoVars, chassisVars, versionVars, numVars>>

\* the loop is over and the call returns
MapReturn ==
    /\ mpc = "loop" /\ idx > Len(lsps)
    /\ mpc' = "done"
    /\ UNCHANGED <<vteps, lsps, switchMap, idx, idVars, infoVars, chassisVars, versionVars, numVars>>

(***************************************************************************)
(* parseOvsVersion on its own                                              *)
(***************************************************************************)
MaxSpaces == 2
MaxVersionLen == 2

OvsVswitchd == <<"o", "v", "s", "-", "v", "s", "w", "i", "t", "c", "h", "d">>

\* the inputs of TestParseOvsVersion
TestVersionStrings ==
    {OvsVswitchd \o <<" ">> \o ProductTag \o <<" ", "3", ".", "5", ".", "1">>,
     OvsVswitchd \o <<" ">> \o ProductTag \o <<" ", "2", ".", "1", "7", ".", "0">>,
     OvsVswitchd \o <<" ">> \o ProductTag \o <<" ", "3", ".", "5", ".", "1", "\n">>,
     <<"3", ".", "5", ".", "1">>,
     <<>>,
     OvsVswitchd \o <<" ">> \o ProductTag \o <<" ", " ", "3", ".", "5", ".", "1", " ", " ">>,
     <<"s", "o", "m", "e", " ", "r", "a", "n", "d", "o", "m", " ", "t", "e", "x", "t">>}

VersionPrefixes == {<<>>, <<" ">>, OvsVswitchd \o <<" ">>}

\* the product tag, no tag, and a tag in the wrong case
VersionTags ==
    {ProductTag, <<>>,
     <<"(", "o", "p", "e", "n", " ", "v", "s", "w", "i", "t", "c", "h", ")">>}

VersionSuffixes ==
    {<<>>, <<" ">>, <<"\n">>, <<" ">> \o ProductTag \o <<" ", "9">>}

\* the texts `ovs-appctl version` may answer with
VersionStrings ==
    TestVersionStrings
    \cup {pre \o tag \o ws \o ver \o suf :
            pre \in VersionPrefixes, tag \in VersionTags,
            ws \in SeqsUpTo({" ", "\t", "VT"}, MaxSpaces),
            ver \in SeqsUpTo({"3", ".", "x"}, MaxVersionLen),
            suf \in VersionSuffixes}

ParseOvsVersion ==
    /\ ~verArgs.called
    /\ \E versionStr \in VersionStrings :
        /\ verArgs' = [called |-> TRUE, versionStr |-> versionStr]
        /\ verRet' = parseOvsVersion(versionStr)
    /\ UNCHANGED <<idVars, infoVars, chassisVars, mapVars, numVars>>

(***************************************************************************)
(* the numeric columns of one Chassis_Private row                          *)
(***************************************************************************)
MaxNum == 3

\* a numeric column as Row.GetColumnValue reports it: one of the four numeric
\* tags with a value (a float64 in halves), another tag, or an error
NumCells ==
    {NumCell(dt, n) : dt \in {"int64", "integer", "int"}, n \in (-MaxNum)..MaxNum}
    \cup {NumCell("float64", n) : n \in (-2 * MaxNum)..(2 * MaxNum)}
    \cup {NumCell("string", 0), NumCell("err", 0)}

\* one iteration of the loop over the Chassis_Private rows
DecodePrivateRow ==
    /\ ~numArgs.called
    /\ \E nb \in NumCells, ts \in NumCells :
        LET row == [chassis |-> StrCell("u1"), name |-> StrCell("n1"),
                    nb_cfg |-> nb, nb_cfg_timestamp |-> ts]
        IN  /\ numArgs' = [called |-> TRUE, row |-> row]
            /\ numRet' = indexPrivate(<<row>>, 1, [nb |-> EmptyMap, ts |-> EmptyMap])
    /\ UNCHANGED <<idVars, infoVars, chassisVars, mapVars, versionVars>>

NextID == GetSystemID

SpecID == Init /\ [][NextID]_vars

NextInfo == ParseSystemInfo

SpecInfo == Init /\ [][NextInfo]_vars

NextChassis == QueryChassis \/ QueryEncap \/ QueryChassisPrivate

SpecChassis == Init /\ [][NextChassis]_vars

NextMap == MapPortToChassis \/ MapPort \/ MapReturn

SpecMap == Init /\ [][NextMap]_vars

NextPopulate == PopulateVersionFromAppctl

SpecPopulate == Init /\ [][NextPopulate]_vars

NextVersion == ParseOvsVersion

SpecVersion == Init /\ [][NextVersion]_vars

NextNum == DecodePrivateRow

SpecNum == Init /\ [][NextNum]_vars

(***************************************************************************)
(* Claims about getSystemID (checked under SpecID)                         *)
(***************************************************************************)
\* the database was queried and yielded a non-empty 'system-id'
SidDbYields ==
    /\ sidArgs.client /\ sidArgs.dbName # ""
    /\ ~sidArgs.db.err /\ Len(sidArgs.db.rows) > 0
    /\ sidArgs.db.rows[1].dt = "map[string]string"
    /\ "system-id" \in DOMAIN sidArgs.db.rows[1].m
    /\ sidArgs.db.rows[1].m["system-id"] # <<>>

\* the database was queried and yielded no identity
SidDbFailed == sidArgs.client /\ sidArgs.dbName # "" /\ ~SidDbYields

\* the text before the first line break of the identity file
SidFileFirstLine ==
    LET c == sidArgs.file.content
        n == firstNewline(c)
        l == IF n = 0 THEN c ELSE SubSeq(c, 1, n - 1)
    IN  IF Len(l) > 0 /\ l[Len(l)] = "\r" THEN SubSeq(l, 1, Len(l) - 1) ELSE l

\* the identity getSystemID resolved: the database's, else the file's first line
SidResolved ==
    IF SidDbYields THEN sidArgs.db.rows[1].m["system-id"]
    ELSE IF sidArgs.file.st = "ok" THEN SidFileFirstLine
    ELSE <<>>

\* C1: getSystemID never returns success with an identity longer than 253
\* bytes: whenever the identity it resolved, from the database row or from the
\* first line of the file, is longer than 253 bytes, the call returns an error
\* (and cli.System.ID is not set to it).
C1_IdentityLengthEnforced ==
    sidArgs.called =>
        /\ (Len(SidResolved) > 253 => sidRet.err # NoErr)
        /\ (sidRet.err = NoErr => Len(sidRet.id) <= 253 /\ sidRet.id = SidResolved)
        /\ Len(cliSystemID) <= 253

\* an over-long first line of the identity file was rejected
C1_Witness ==
    /\ sidArgs.called /\ ~SidDbYields /\ sidArgs.file.st = "ok"
    /\ Len(SidFileFirstLine) = 254
    /\ sidRet.err = TooLongErr

\* C3: whenever the database attempt fails to yield an identity (transport
\* error, zero rows, missing or mistyped external_ids, absent or empty
\* 'system-id') and the file attempt fails too (open or read error), the
\* returned error reports both the database cause and the file cause.
C3_BothCausesReported ==
    (sidArgs.called /\ SidDbFailed /\ sidArgs.file.st \in {"open", "read"}) =>
        {"database", "file"} \subseteq sidRet.err.causes

\* C4: identity is mandatory: getSystemID never returns success with an empty
\* identity string; when neither the database nor the file yields an identity
\* it returns an error.
C4_IdentityMandatory ==
    sidArgs.called => ~(sidRet.err = NoErr /\ sidRet.id = <<>>)

(***************************************************************************)
(* Claims about parseSystemInfo (checked under SpecInfo)                   *)
(***************************************************************************)
\* the first row decoded: external_ids is a map holding 'system-id' and the
\* four version columns are strings or string lists
PsiDecoded ==
    /\ psiArgs.called /\ Len(psiArgs.res.rows) > 0
    /\ psiArgs.res.rows[1].ext.dt = "map[string]string"
    /\ "system-id" \in DOMAIN psiArgs.res.rows[1].ext.m
    /\ \A c \in DOMAIN psiArgs.res.rows[1].cols :
          psiArgs.res.rows[1].cols[c].dt \in {"string", "[]string"}

PsiRowID == psiArgs.res.rows[1].ext.m["system-id"]

PsiHasHostname == "hostname" \in DOMAIN psiArgs.res.rows[1].ext.m

\* C2 as stated: for every expected identity and every decoded row, a
\* 'system-id' that differs from the expected identity fails with a mismatch
\* error, and an equal one makes the resolution succeed.
C2_Original ==
    PsiDecoded =>
        /\ (PsiRowID # psiArgs.systemID => psiRet.err.kind = "system-id mismatch")
        /\ (PsiRowID = psiArgs.systemID => psiRet.err = NoErr)

\* C2 (amended): for every expected identity and every decoded row, a
\* 'system-id' that differs from the expected identity fails with a mismatch
\* error; an equal one makes the resolution succeed exactly when external_ids
\* also holds the mandatory 'hostname', and fails with a missing-key error
\* otherwise.
C2_Reconciliation ==
    PsiDecoded =>
        /\ (PsiRowID # psiArgs.systemID => psiRet.err.kind = "system-id mismatch")
        /\ (PsiRowID = psiArgs.systemID /\ PsiHasHostname =>
               /\ psiRet.err = NoErr
               /\ psiRet.info["system-id"] = psiArgs.systemID)
        /\ (PsiRowID = psiArgs.systemID /\ ~PsiHasHostname =>
               psiRet.err = MkErr("no mandatory key", {"hostname"}))

\* an equal identity with a hostname succeeded
C2_Witness ==
    /\ PsiDecoded /\ PsiRowID = psiArgs.systemID /\ PsiRowID # <<>>
    /\ PsiHasHostname /\ psiRet.err = NoErr

(***************************************************************************)
(* Claims about populateVersionFromAppctl (checked under SpecPopulate)     *)
(***************************************************************************)
\* C5: after populateVersionFromAppctl returns, for every initial metadata
\* map, schema value and outcome of the control socket and of the OS metadata
\* file, each of ovs_version, db_version, system_type and system_version is
\* present and non-empty (a real value or "unknown").
C5_MetadataComplete ==
    popArgs.called =>
        \A k \in {"ovs_version", "db_version", "system_type", "system_version"} :
            k \in DOMAIN popRet /\ popRet[k] # <<>>

(***************************************************************************)
(* Claims about GetChassis (checked under SpecChassis)                     *)
(***************************************************************************)
\* the readable Encap rows of `result` that match chassis c on both keys
EncapRowsFor(c) ==
    {j \in 1..Len(result.rows) :
        /\ result.rows[j].uuid.dt = "string" /\ result.rows[j].chassis_name.dt = "string"
        /\ result.rows[j].type.dt = "string" /\ result.rows[j].ip.dt = "string"
        /\ result.rows[j].uuid.s = c.EncapsUUID
        /\ result.rows[j].chassis_name.s = c.Name}

\* C6: for every content of the Encap table, every chassis built from the base
\* rows stays in the result (the call goes on without error); a chassis takes
\* its IP address and protocol only from an endpoint row whose identifier
\* equals its encaps reference and whose chassis_name equals its name, and a
\* chassis with no such row keeps a nil IP address and an empty protocol.
C6_EndpointJoin ==
    (result.table = "Encap" /\ ~result.err) =>
        \A k \in 1..Len(chassis) :
              /\ pc = "encap"
              /\ EncapRowsFor(chassis[k]) = {} =>
                    chassis[k].IPAddress = NilIP /\ chassis[k].EncapsProto = ""
              /\ chassis[k].EncapsProto # "" =>
                    \E j \in EncapRowsFor(chassis[k]) :
                        /\ chassis[k].EncapsProto = result.rows[j].type.s
                        /\ chassis[k].IPAddress \in {NilIP, result.rows[j].ip.s}
              /\ chassis[k].IPAddress # NilIP => chassis[k].EncapsProto # ""

\* the Chassis_Private rows of `result` indexed under key
PrivateRowsUnder(key) ==
    {j \in 1..Len(result.rows) :
        \/ (result.rows[j].chassis.dt = "string" /\ result.rows[j].chassis.s = key)
        \/ (result.rows[j].name.dt = "string" /\ result.rows[j].name.s = key)}

LastOf(S) == CHOOSE j \in S : \A k \in S : k <= j

\* C7: every Chassis_Private record is indexed under its chassis identifier
\* and under its name, where non-empty; each returned chassis takes NbCfg and
\* NbCfgTimestamp from the entry under its UUID if there is one, otherwise
\* from the entry under its name, otherwise both are 0; both fields come from
\* the same record.
C7_PrivateKeyResolution ==
    (pc = "done" /\ result.table = "Chassis_Private" /\ ~result.err) =>
        /\ ret.err = NoErr /\ ~ret.isNil
        /\ \A k \in 1..Len(ret.list) :
              LET c == ret.list[k]
                  byUUID == IF c.UUID = "" THEN {} ELSE PrivateRowsUnder(c.UUID)
                  byName == IF c.Name = "" THEN {} ELSE PrivateRowsUnder(c.Name)
                  from == IF byUUID # {} THEN byUUID ELSE byName
              IN  IF from = {}
                  THEN c.NbCfg = 0 /\ c.NbCfgTimestamp = 0
                  ELSE /\ c.NbCfg = decodeNum(result.rows[LastOf(from)].nb_cfg)
                       /\ c.NbCfgTimestamp = decodeNum(result.rows[LastOf(from)].nb_cfg_timestamp)

\* a chassis that no record names by UUID took both fields from a record
\* that carries its name
C7_Witness ==
    /\ pc = "done" /\ result.table = "Chassis_Private" /\ ~result.err
    /\ \E k \in 1..Len(ret.list) :
          /\ PrivateRowsUnder(ret.list[k].UUID) = {}
          /\ PrivateRowsUnder(ret.list[k].Name) # {}
          /\ ret.list[k].NbCfg = 3 /\ ret.list[k].NbCfgTimestamp = 30

\* C8: a transport error or zero rows of the Chassis query, or a transport
\* error of the Encap query, make GetChassis return an error and a nil list;
\* a failure of the Chassis_Private query alone makes it return no error and
\* exactly the list built by phases 1 and 2, no chassis dropped or altered,
\* with NbCfg = NbCfgTimestamp = 0 for each.
C8_Step ==
    /\ (pc = "start" /\ pc' # "start" /\ (result'.err \/ Len(result'.rows) = 0)) =>
          pc' = "done" /\ ret'.err # NoErr /\ ret'.isNil /\ ret'.list = <<>>
    /\ (pc = "chassis" /\ pc' # "chassis" /\ result'.err) =>
          pc' = "done" /\ ret'.err # NoErr /\ ret'.isNil /\ ret'.list = <<>>
    /\ (pc = "encap" /\ pc' # "encap" /\ result'.err) =>
          /\ pc' = "done" /\ ret'.err = NoErr /\ ~ret'.isNil
          /\ ret'.list = chassis
          /\ \A k \in 1..Len(ret'.list) :
                ret'.list[k].NbCfg = 0 /\ ret'.list[k].NbCfgTimestamp = 0

C8_ErrorPolicy == [][C8_Step]_vars

\* the Chassis_Private query failed and two chassis, one with its endpoint, came back
C8_Witness ==
    /\ pc = "done" /\ result.table = "Chassis_Private" /\ result.err
    /\ ret.err = NoErr /\ Len(ret.list) = 2
    /\ \E k \in 1..Len(ret.list) : ret.list[k].IPAddress # NilIP

(***************************************************************************)
(* Claims about MapPortToChassis (checked under SpecMap)                   *)
(***************************************************************************)
\* port j names a chassis of the supplied list
PortKnown(j) == \E k \in 1..Len(vteps) : vteps[k].UUID = lsps[j].ChassisUUID

\* the chassis object the lookup gives for port j: the last one with its UUID
PortTarget(j) ==
    CHOOSE k \in 1..Len(vteps) :
        /\ vteps[k].UUID = lsps[j].ChassisUUID
        /\ \A m \in (k + 1)..Len(vteps) : vteps[m].UUID # lsps[j].ChassisUUID

\* port j is the first port of a known chassis that carries its switch
FirstOfSwitch(j) ==
    /\ PortKnown(j)
    /\ \A i \in 1..(j - 1) :
          PortKnown(i) => lsps[i].LogicalSwitchUUID # lsps[j].LogicalSwitchUUID

\* the ports handled so far, in order
Handled == [j \in 1..(idx - 1) |-> j]

\* C9: during one invocation over chassis whose Ports and Switches start
\* empty, a port's switch is appended to its chassis's Switches only if no
\* earlier port of a known chassis carried that switch, so no switch occurs
\* twice in any chassis's Switches (nor in two chassis); and the identifier of
\* every port whose chassis is known is appended to that chassis's Ports.
C9_AssociationDedup ==
    mpc # "idle" =>
        \A k \in 1..Len(vteps) :
            LET mine == SelectSeq(Handled, LAMBDA j : PortKnown(j) /\ PortTarget(j) = k)
                first == SelectSeq(mine, LAMBDA j : FirstOfSwitch(j))
            IN  /\ vteps[k].Ports = [n \in 1..Len(mine) |-> lsps[mine[n]].UUID]
                /\ vteps[k].Switches = [n \in 1..Len(first) |-> lsps[first[n]].LogicalSwitchUUID]
                /\ \A a, b \in 1..Len(vteps[k].Switches) :
                      a # b => vteps[k].Switches[a] # vteps[k].Switches[b]
                /\ \A m \in 1..Len(vteps) : m # k =>
                      \A a \in 1..Len(vteps[k].Switches), b \in 1..Len(vteps[m].Switches) :
                          vteps[k].Switches[a] # vteps[m].Switches[b]

\* two ports of one chassis on the same switch: the switch once, both ports
C9_Witness ==
    /\ mpc = "done"
    /\ \E k \in 1..Len(vteps) :
          /\ vteps[k].Switches = <<"sw-1">>
          /\ vteps[k].Ports = <<"p1", "p2">>
          /\ lsps[1].LogicalSwitchUUID = "sw-1" /\ lsps[2].LogicalSwitchUUID = "sw-1"

\* C10: a port whose ChassisUUID is the UUID of no chassis of the list is left
\* unmodified (Encapsulation and ChassisIPAddress as before), adds nothing to
\* any chassis's Ports or Switches, does not mark its switch as seen, and the
\* loop carries on with the remaining ports, which are annotated as usual.
C10_UnknownPortTolerated ==
    mpc # "idle" =>
        /\ \A j \in 1..Len(lsps) : ~PortKnown(j) =>
              /\ lsps[j].Encapsulation = OrigEncap /\ lsps[j].ChassisIPAddress = OrigIP
              /\ \A k \in 1..Len(vteps) : \A n \in 1..Len(vteps[k].Ports) :
                    vteps[k].Ports[n] # lsps[j].UUID
        /\ switchMap = {lsps[j].LogicalSwitchUUID : j \in {i \in 1..(idx - 1) : PortKnown(i)}}
        /\ \A k \in 1..Len(vteps) : \A n \in 1..Len(vteps[k].Switches) :
              vteps[k].Switches[n] \in switchMap
        /\ \A j \in 1..(idx - 1) : PortKnown(j) =>
              /\ lsps[j].Encapsulation = vteps[PortTarget(j)].EncapsProto
              /\ lsps[j].ChassisIPAddress = vteps[PortTarget(j)].IPAddress
        /\ (mpc = "done" => idx = Len(lsps) + 1)

\* an unknown port came first; a later port of a known chassis on the same
\* switch was still annotated and its switch recorded
C10_Witness ==
    /\ mpc = "done" /\ Len(lsps) >= 2 /\ Len(vteps) >= 1
    /\ ~PortKnown(1) /\ PortKnown(2)
    /\ lsps[1].LogicalSwitchUUID = lsps[2].LogicalSwitchUUID
    /\ lsps[1].Encapsulation = OrigEncap
    /\ lsps[2].Encapsulation = "geneve"
    /\ vteps[PortTarget(2)].Switches = <<lsps[2].LogicalSwitchUUID>>

(***************************************************************************)
(* C11: parseOvsVersion.  When the text contains "(Open vSwitch)" followed *)
(* by one or more white space characters (those of \s) and a run of digits *)
(* and dots, the result is exactly that run, taken at the first such       *)
(* place and to the end of the run; for every other text, the empty one    *)
(* included, the result is the text without its leading and trailing       *)
(* white space (that of strings.TrimSpace).  Every text has a result.      *)
(***************************************************************************)
VerTagAt(s, i) ==
    /\ i + Len(ProductTag) - 1 <= Len(s)
    /\ \A k \in 1..Len(ProductTag) : s[i + k - 1] = ProductTag[k]

\* w white space characters from position from on
VerSpacesAt(s, from, w) ==
    /\ from + w - 1 <= Len(s)
    /\ \A k \in 0..(w - 1) : s[from + k] \in ReSpace

\* n digits and dots from position from on
VerRunAt(s, from, n) ==
    /\ from + n - 1 <= Len(s)
    /\ \A k \in 0..(n - 1) : s[from + k] \in VersionChar

\* the tag at i, then one or more white space characters, then a digit or dot
VerHasPatternAt(s, i) ==
    /\ VerTagAt(s, i)
    /\ \E w \in 1..Len(s) :
        /\ VerSpacesAt(s, i + Len(ProductTag), w)
        /\ VerRunAt(s, i + Len(ProductTag) + w, 1)

VerHasPattern(s) == \E i \in 1..Len(s) : VerHasPatternAt(s, i)

\* r is the whole run of digits and dots of the first place with the pattern
VerIsRun(s, r) ==
    \E i \in 1..Len(s) :
        /\ VerHasPatternAt(s, i)
        /\ \A j \in 1..(i - 1) : ~VerHasPatternAt(s, j)
        /\ \E w \in 1..Len(s) :
            LET from == i + Len(ProductTag) + w IN
            /\ VerSpacesAt(s, i + Len(ProductTag), w)
            /\ \E n \in 1..Len(s) :
                /\ VerRunAt(s, from, n)
                /\ from + n <= Len(s) => s[from + n] \notin VersionChar
                /\ r = [k \in 1..n |-> s[from + k - 1]]

\* r is s without its leading and trailing white space
VerIsTrimmed(s, r) ==
    \E a \in 1..(Len(s) + 1) : \E b \in 0..Len(s) :
        /\ b >= a - 1
        /\ \A k \in 1..(a - 1) : s[k] \in UnicodeSpace
        /\ \A k \in (b + 1)..Len(s) : s[k] \in UnicodeSpace
        /\ b >= a => s[a] \notin UnicodeSpace /\ s[b] \notin UnicodeSpace
        /\ r = [k \in 1..(b - a + 1) |-> s[a + k - 1]]

C11_VersionExtraction ==
    verArgs.called =>
        IF VerHasPattern(verArgs.versionStr)
        THEN VerIsRun(verArgs.versionStr, verRet)
        ELSE VerIsTrimmed(verArgs.versionStr, verRet)

\* "ovs-vswitchd (Open vSwitch)  3.5.1  " gives "3.5.1"
C11_Witness ==
    /\ verArgs.called
    /\ verArgs.versionStr =
         OvsVswitchd \o <<" ">> \o ProductTag \o <<" ", " ", "3", ".", "5", ".", "1", " ", " ">>
    /\ verRet = <<"3", ".", "5", ".", "1">>

(***************************************************************************)
(* C12: the numeric columns of a Chassis_Private row.  Under each of the   *)
(* tags "int64", "integer", "float64" and "int" a column carrying an       *)
(* integral value decodes to that value, so two columns that carry the     *)
(* same integral value under any two of the four tags decode to the same   *)
(* integer, and nb_cfg and nb_cfg_timestamp are decoded alike.             *)
(***************************************************************************)
NumericTags == {"int64", "integer", "float64", "int"}

\* the cell carries an integral value under one of the four tags
NumIntegral(cell) ==
    /\ cell.dt \in NumericTags
    /\ cell.dt = "float64" => cell.n % 2 = 0

\* the integral value a cell carries
NumValue(cell) == IF cell.dt = "float64" THEN cell.n \div 2 ELSE cell.n

C12_NumericNormalisation ==
    numArgs.called =>
        LET nb == numArgs.row.nb_cfg
            ts == numArgs.row.nb_cfg_timestamp
        IN  /\ NumIntegral(nb) => numRet.nb["u1"] = NumValue(nb)
            /\ NumIntegral(ts) => numRet.ts["u1"] = NumValue(ts)
            /\ NumIntegral(nb) /\ NumIntegral(ts) /\ NumValue(nb) = NumValue(ts)
                  => numRet.nb["u1"] = numRet.ts["u1"]

\* the value 3 as a float64 and as an int
C12_Witness ==
    /\ numArgs.called
    /\ numArgs.row.nb_cfg = NumCell("float64", 6)
    /\ numArgs.row.nb_cfg_timestamp = NumCell("int", 3)
    /\ numRet.nb["u1"] = 3
    /\ numRet.ts["u1"] = 3

(***************************************************************************)
(* C13: strict source priority in populateVersionFromAppctl.  The control  *)
(* socket, the schema and the OS metadata file stand in only for a field   *)
(* that is absent or empty in the decoded database row: every field that   *)
(* was non-empty before the call has the same value after it.              *)
(***************************************************************************)
C13_SourcePriority ==
    popArgs.called =>
        \A k \in DOMAIN popArgs.systemInfo :
            popArgs.systemInfo[k] # <<>> =>
                k \in DOMAIN popRet /\ popRet[k] = popArgs.systemInfo[k]

(***************************************************************************)
(* C14: partial base result of GetChassis.  Every chassis built from the   *)
(* base rows has the UUID, name and encaps reference of a row whose three  *)
(* mandatory columns decoded as strings, and a call that returns without   *)
(* error returns at least one chassis, also when rows were skipped.        *)
(***************************************************************************)
\* the three mandatory columns of a base row decoded as strings
BaseRowDecoded(row) == isString(row.uuid) /\ isString(row.name) /\ isString(row.encaps)

\* c has the three values of a decoded row of the base query
FromBaseRow(c, rows) ==
    \E i \in 1..Len(rows) :
        /\ BaseRowDecoded(rows[i])
        /\ c.UUID = rows[i].uuid.s
        /\ c.Name = rows[i].name.s
        /\ c.EncapsUUID = rows[i].encaps.s

C14_PartialBaseResult ==
    /\ pc = "chassis" => \A k \in 1..Len(chassis) : FromBaseRow(chassis[k], result.rows)
    /\ pc = "done" /\ ret.err = NoErr => Len(ret.list) >= 1

\* the three values of every chassis of a list, which the later phases keep
BaseKeys(list) == [k \in 1..Len(list) |-> <<list[k].UUID, list[k].Name, list[k].EncapsUUID>>]

C14_BaseKeysKept ==
    [][/\ pc \in {"chassis", "encap"} /\ pc' # "done" => BaseKeys(chassis') = BaseKeys(chassis)
       /\ pc \in {"chassis", "encap"} /\ pc' = "done" /\ ret'.err = NoErr
             => BaseKeys(ret'.list) = BaseKeys(chassis)]_vars

====
